---- MODULE Spec2Model ----
(***************************************************************************)
(* A model of gen_arena (src/src/lib.rs): a generational arena.  Vec       *)
(* indices are 0-based as in the source; TLA+ sequences are 1-based, so    *)
(* slot i of the source is a.slots[i + 1].                                 *)
(*                                                                         *)
(* The u32 fields (generation, first_free, free_count) hold small naturals *)
(* here: the guards of the actions keep the slot vector and the sum of the *)
(* generations within the caps below, far below 2^32, so the additions of  *)
(* remove_raw never overflow within the bounds.  A usize subtraction that  *)
(* goes below zero is kept as the negative mathematical result and stands  *)
(* for the overflow outcome.                                               *)
(***************************************************************************)
EXTENDS Integers, Sequences, FiniteSets, TLC

\* ------------------------------------------------------------------ bounds
\* Caps on the length of the slot vector and on the sum of the generations of
\* its slots (the removals that took effect since the last clear), for the
\* specification of
\* insert and remove alone (SpecIR), for the specifications with clear,
\* extend and reserve (Spec, SpecExtend, SpecReserve) and for the
\* specification with iterators (SpecIter).
MaxSlotsIR == 3
MaxGenSumIR == 3
MaxSlots == 2
MaxGenSum == 2
MaxSlotsIter == 3
MaxGenSumIter == 2
\* The handles given to the indexing operators: indices up to MaxIdxIndex,
\* generations up to MaxIdxGen.
MaxIdxIndex == 2
MaxIdxGen == 2
\* The largest `additional` passed to reserve, the longest sequence passed to
\* extend.
MaxAdditional == 2
MaxExtend == 2
\* The longest sequence an arena is built from.
MaxFrom == 3

Values == {1, 2}

\* The sequences over S of length at most n.
SeqUpTo(S, n) == UNION { [1..k -> S] : k \in 0..n }

\* -------------------------------------------------------------- data types
None == [some |-> FALSE]
Some(v) == [some |-> TRUE, val |-> v]

Present(t) == [tag |-> "Present", val |-> t]
Free(next_free) == [tag |-> "Free", next_free |-> next_free]
Slot(generation, entry) == [generation |-> generation, entry |-> entry]
Id(index, generation) == [index |-> index, generation |-> generation]

MkArena(s, ff, fc) == [slots |-> s, first_free |-> ff, free_count |-> fc]

\* Every handle value the properties quantify over: one index past the
\* largest slot vector and one generation past the largest generation.
IdSpace == { Id(i, g) : i \in 0..(MaxSlotsIR + 1), g \in 0..(MaxGenSumIR + 1) }

\* ------------------------------------------------------- Arena's functions
new == MkArena(<< >>, 0, 0)

\* clear that forgets to reset the free count.
clear_keeps_free_count(a) == MkArena(<< >>, a.first_free, a.free_count)

clear(a) == MkArena(<< >>, a.first_free, 0)

\* len that forgets the free slots.
len_counts_free_slots(a) == Len(a.slots)

len(a) == Len(a.slots) - a.free_count

is_empty(a) == len(a) = 0

exists_raw(a, id) ==
    IF id.index >= Len(a.slots)
    THEN FALSE
    ELSE id.generation = a.slots[id.index + 1].generation

get_raw(a, id) ==
    IF id.index >= Len(a.slots)
    THEN None
    ELSE LET slot == a.slots[id.index + 1]
         IN  IF id.generation # slot.generation
             THEN None
             ELSE IF slot.entry.tag # "Present"
                  THEN None
                  ELSE Some(slot.entry.val)

\* get_mut_raw that does not compare the generations.
get_mut_raw_ignores_generation(a, id) ==
    IF id.index >= Len(a.slots)
    THEN None
    ELSE LET slot == a.slots[id.index + 1]
         IN  IF slot.entry.tag # "Present"
             THEN None
             ELSE Some(slot.entry.val)

get_mut_raw(a, id) ==
    IF id.index >= Len(a.slots)
    THEN None
    ELSE LET slot == a.slots[id.index + 1]
         IN  IF id.generation # slot.generation
             THEN None
             ELSE IF slot.entry.tag # "Present"
                  THEN None
                  ELSE Some(slot.entry.val)

\* Index<Id>::index and IndexMut<Id>::index_mut: the item of get_raw or of
\* get_mut_raw, a panic where there is none.
arena_index(a, id) ==
    LET g == get_raw(a, id)
    IN  [ret |-> g, panic |-> ~g.some]

arena_index_mut(a, id) ==
    LET g == get_mut_raw(a, id)
    IN  [ret |-> g, panic |-> ~g.some]

\* take that matches on the entry it has just written, not on the old one.
take_matches_new_entry(entry, next_free) ==
    [entry |-> Free(next_free), old |-> None]

\* Entry::take: the entry becomes Free{next_free}; the old value, if any.
take(entry, next_free) ==
    [entry |-> Free(next_free),
     old   |-> IF entry.tag = "Present" THEN Some(entry.val) ELSE None]

\* remove_raw that increments the generation of the slot also where the
\* handle does not match it.
remove_raw_bumps_on_miss(a, id) ==
    IF ~exists_raw(a, id)
    THEN IF id.index < Len(a.slots)
         THEN [arena |-> MkArena(
                   [a.slots EXCEPT ![id.index + 1] = Slot(@.generation + 1, @.entry)],
                   a.first_free,
                   a.free_count),
               ret   |-> None]
         ELSE [arena |-> a, ret |-> None]
    ELSE LET i == id.index + 1
             t == take(a.slots[i].entry, a.first_free)
         IN  [arena |-> MkArena(
                  [a.slots EXCEPT ![i] = Slot(@.generation + 1, t.entry)],
                  id.index,
                  a.free_count + 1),
              ret   |-> t.old]

\* remove_raw that does not make the vacated slot the head of the free list.
remove_raw_forgets_head(a, id) ==
    IF ~exists_raw(a, id)
    THEN [arena |-> a, ret |-> None]
    ELSE LET i == id.index + 1
             t == take(a.slots[i].entry, a.first_free)
         IN  [arena |-> MkArena(
                  [a.slots EXCEPT ![i] = Slot(@.generation + 1, t.entry)],
                  a.first_free,
                  a.free_count + 1),
              ret   |-> t.old]

\* remove_raw without the increment of the generation.
remove_raw_keeps_generation(a, id) ==
    IF ~exists_raw(a, id)
    THEN [arena |-> a, ret |-> None]
    ELSE LET i == id.index + 1
             t == take(a.slots[i].entry, a.first_free)
         IN  [arena |-> MkArena(
                  [a.slots EXCEPT ![i] = Slot(@.generation, t.entry)],
                  id.index,
                  a.free_count + 1),
              ret   |-> t.old]

remove_raw(a, id) ==
    IF ~exists_raw(a, id)
    THEN [arena |-> a, ret |-> None]
    ELSE LET i == id.index + 1
             t == take(a.slots[i].entry, a.first_free)
         IN  [arena |-> MkArena(
                  [a.slots EXCEPT ![i] = Slot(@.generation + 1, t.entry)],
                  id.index,
                  a.free_count + 1),
              ret   |-> t.old]

\* free_index that hands out a reused slot under generation 0.
free_index_fresh_generation(a) ==
    IF a.free_count > 0
    THEN LET index == a.first_free
         IN  IF index >= Len(a.slots)
             THEN [arena |-> a, panic |-> TRUE, id |-> Id(index, 0)]
             ELSE LET item == a.slots[index + 1]
                  IN  IF item.entry.tag # "Free"
                      THEN [arena |-> a, panic |-> TRUE, id |-> Id(index, 0)]
                      ELSE [arena |-> MkArena(a.slots, item.entry.next_free,
                                              a.free_count - 1),
                            panic |-> FALSE,
                            id    |-> Id(index, 0)]
    ELSE [arena |-> MkArena(Append(a.slots, Slot(0, Free(0))),
                            a.first_free, a.free_count),
          panic |-> FALSE,
          id    |-> Id(Len(a.slots), 0)]

\* free_index panics on an out-of-bounds first_free (slice indexing) and on a
\* first_free that names a Present slot (unreachable!()), before it changes
\* anything.
free_index(a) ==
    IF a.free_count > 0
    THEN LET index == a.first_free
         IN  IF index >= Len(a.slots)
             THEN [arena |-> a, panic |-> TRUE, id |-> Id(index, 0)]
             ELSE LET item == a.slots[index + 1]
                  IN  IF item.entry.tag # "Free"
                      THEN [arena |-> a, panic |-> TRUE, id |-> Id(index, item.generation)]
                      ELSE [arena |-> MkArena(a.slots, item.entry.next_free,
                                              a.free_count - 1),
                            panic |-> FALSE,
                            id    |-> Id(index, item.generation)]
    ELSE [arena |-> MkArena(Append(a.slots, Slot(0, Free(0))),
                            a.first_free, a.free_count),
          panic |-> FALSE,
          id    |-> Id(Len(a.slots), 0)]

\* insert_raw that writes the value into the slot at the head of the free
\* list it is left with.
insert_raw_writes_head(a, t) ==
    LET r == free_index(a)
    IN  IF r.panic \/ r.arena.first_free >= Len(r.arena.slots)
        THEN [arena |-> a, panic |-> TRUE, id |-> r.id]
        ELSE [arena |-> MkArena(
                  [r.arena.slots EXCEPT ![r.arena.first_free + 1] =
                       Slot(@.generation, Present(t))],
                  r.arena.first_free,
                  r.arena.free_count),
              panic |-> FALSE,
              id    |-> r.id]

insert_raw(a, t) ==
    LET r == free_index(a)
    IN  IF r.panic
        THEN r
        ELSE [arena |-> MkArena(
                  [r.arena.slots EXCEPT ![r.id.index + 1] = Slot(@.generation, Present(t))],
                  r.arena.first_free,
                  r.arena.free_count),
              panic |-> FALSE,
              id    |-> r.id]

\* Extend::extend: insert_raw of every item in order, the handles dropped; a
\* panic of insert_raw ends the loop.
RECURSIVE extend(_, _)
extend(a, items) ==
    IF items = << >>
    THEN [arena |-> a, panic |-> FALSE]
    ELSE LET r == insert_raw(a, Head(items))
         IN  IF r.panic
             THEN [arena |-> r.arena, panic |-> TRUE]
             ELSE extend(r.arena, Tail(items))

\* from_iter that counts the collected slots as free.
from_iter_counts_free(items) ==
    MkArena([i \in 1..Len(items) |-> Slot(0, Present(items[i]))], 0, Len(items))

\* FromIterator::from_iter: one Present slot of generation 0 per item.
from_iter(items) ==
    MkArena([i \in 1..Len(items) |-> Slot(0, Present(items[i]))], 0, 0)

\* Vec::reserve and Vec::reserve_exact of the standard library, as far as the
\* arena can see: a request that does not fit a usize-sized allocation panics
\* ("capacity overflow").  The amount is the mathematical value of the usize
\* expression; a negative amount is the subtraction having overflowed, which
\* panics where overflow checks are on and otherwise wraps to a request of
\* almost 2^64 slots, which panics in Vec.
vec_reserve(amount) == [request |-> Some(amount), panic |-> amount < 0]

reserve(a, additional) ==
    LET free == a.free_count
    IN  IF additional <= free
        THEN [request |-> None, panic |-> FALSE]
        ELSE vec_reserve(free - additional)

reserve_exact(a, additional) ==
    LET free == a.free_count
    IN  IF additional <= free
        THEN [request |-> None, panic |-> FALSE]
        ELSE vec_reserve(free - additional)

\* ------------------------------------------------- Iter, IterMut, IntoIter
\* An iterator holds the part front..back-1 of the slot vector that its slice
\* iterator has not passed yet, and the counters length and returned.  The
\* three kinds run the same code over a shared borrow, an exclusive borrow
\* and the moved vector.
NoIter == [kind |-> "none"]

MkIter(kind, a) ==
    [kind |-> kind, front |-> 0, back |-> Len(a.slots),
     length |-> len(a), returned |-> 0]

iter(a) == MkIter("iter", a)

iter_mut(a) == MkIter("iter_mut", a)

into_iter(a) == MkIter("into_iter", a)

\* next that starts over from the first slot once the slice is used up.
RECURSIVE next_starts_over(_, _)
next_starts_over(i, s) ==
    IF i.front >= i.back
    THEN [iter |-> [i EXCEPT !.front = 0, !.back = Len(s)], ret |-> None]
    ELSE LET slot == s[i.front + 1]
             j    == [i EXCEPT !.front = @ + 1]
         IN  IF slot.entry.tag = "Present"
             THEN [iter |-> [j EXCEPT !.returned = @ + 1], ret |-> Some(slot.entry.val)]
             ELSE next_starts_over(j, s)

RECURSIVE next(_, _)
next(i, s) ==
    IF i.front >= i.back
    THEN [iter |-> i, ret |-> None]
    ELSE LET slot == s[i.front + 1]
             j    == [i EXCEPT !.front = @ + 1]
         IN  IF slot.entry.tag = "Present"
             THEN [iter |-> [j EXCEPT !.returned = @ + 1], ret |-> Some(slot.entry.val)]
             ELSE next(j, s)

\* next_back that takes from the front of the slice, as next does.
next_back_from_front(i, s) == next(i, s)

RECURSIVE next_back(_, _)
next_back(i, s) ==
    IF i.front >= i.back
    THEN [iter |-> i, ret |-> None]
    ELSE LET slot == s[i.back]
             j    == [i EXCEPT !.back = @ - 1]
         IN  IF slot.entry.tag = "Present"
             THEN [iter |-> [j EXCEPT !.returned = @ + 1], ret |-> Some(slot.entry.val)]
             ELSE next_back(j, s)

\* size_hint that forgets what was returned.
size_hint_ignores_returned(i) == i.length

size_hint(i) == i.length - i.returned

\* ------------------------------------------------------------------- state
\* slots, first_free, free_count: the fields of Arena.
\* panicked: an operation has panicked; the model stops there.
\* last:     the last operation, its argument and what it returned.
\* issued:   the handles insert has returned to the caller so far.
\* removed:  the handles for which remove has returned the value since the
\*           last clear.
\* vacated:  for each slot, the handle whose remove last returned the value
\*           of that slot since the last clear.
\* freed:    the indices of the slots whose value a remove has returned and
\*           that no insertion has taken since, the oldest first; emptied
\*           by clear.
\* it:       the iterator that borrows (or has consumed) the arena, if any.
\* yielded:  the values the iterator has yielded, in the order of the calls.
\* calls:    "fwd" while every call so far was next, "bwd" while every call
\*           was next_back, "mixed" otherwise, "none" before the first call.
\* ended:    a call on the iterator has returned nothing.
VARIABLES slots, first_free, free_count, panicked, last, issued, removed,
          vacated, freed, it, yielded, calls, ended

arena_vars == << slots, first_free, free_count >>
iter_vars == << it, yielded, calls, ended >>
vars == << slots, first_free, free_count, panicked, last, issued, removed,
           vacated, freed, it, yielded, calls, ended >>

\* No iterator holds the arena: the borrow rules allow a call on it.
Usable == ~panicked /\ it.kind = "none"

Arena == MkArena(slots, first_free, free_count)

SetArena(a) ==
    /\ slots' = a.slots
    /\ first_free' = a.first_free
    /\ free_count' = a.free_count

RECURSIVE GenSum(_)
GenSum(s) == IF s = << >> THEN 0 ELSE Head(s).generation + GenSum(Tail(s))

GenCap(a, maxGenSum) == GenSum(a.slots) <= maxGenSum

\* The sequence without the slot index i.
Without(q, i) == SelectSeq(q, LAMBDA j : j # i)

Init ==
    /\ slots = new.slots
    /\ first_free = new.first_free
    /\ free_count = new.free_count
    /\ panicked = FALSE
    /\ last = [op |-> "new"]
    /\ issued = {}
    /\ removed = {}
    /\ vacated = {}
    /\ freed = << >>
    /\ it = NoIter
    /\ yielded = << >>
    /\ calls = "none"
    /\ ended = FALSE

\* The arena is built from a sequence instead.
InitFrom ==
    \E items \in SeqUpTo(Values, MaxFrom) :
        /\ slots = from_iter(items).slots
        /\ first_free = from_iter(items).first_free
        /\ free_count = from_iter(items).free_count
        /\ panicked = FALSE
        /\ last = [op |-> "from_iter", arg |-> items]
        /\ issued = {}
        /\ removed = {}
        /\ vacated = {}
        /\ freed = << >>
        /\ it = NoIter
        /\ yielded = << >>
        /\ calls = "none"
        /\ ended = FALSE

\* ----------------------------------------------------------------- actions
Insert(t, maxSlots) ==
    /\ Usable
    /\ LET r == insert_raw(Arena, t)
       IN  /\ Len(r.arena.slots) <= maxSlots
           /\ SetArena(r.arena)
           /\ panicked' = r.panic
           /\ last' = [op |-> "insert", arg |-> t, panic |-> r.panic, ret |-> r.id]
           /\ issued' = IF r.panic THEN issued ELSE issued \cup {r.id}
           /\ freed' = IF r.panic THEN freed ELSE Without(freed, r.id.index)
           /\ UNCHANGED << removed, vacated, iter_vars >>

Remove(id, maxGenSum) ==
    /\ Usable
    /\ LET r == remove_raw(Arena, id)
       IN  /\ GenCap(r.arena, maxGenSum)
           /\ SetArena(r.arena)
           /\ last' = [op |-> "remove", arg |-> id, ret |-> r.ret]
           /\ removed' = IF r.ret.some THEN removed \cup {id} ELSE removed
           /\ vacated' = IF r.ret.some
                         THEN {h \in vacated : h.index # id.index} \cup {id}
                         ELSE vacated
           /\ freed' = IF r.ret.some
                       THEN Append(Without(freed, id.index), id.index)
                       ELSE freed
           /\ UNCHANGED << panicked, issued, iter_vars >>

Clear ==
    /\ Usable
    /\ SetArena(clear(Arena))
    /\ last' = [op |-> "clear", free_count_before |-> free_count]
    /\ removed' = {}
    /\ vacated' = {}
    /\ freed' = << >>
    /\ UNCHANGED << panicked, issued, iter_vars >>

Extend(items, maxSlots) ==
    /\ Usable
    /\ LET r == extend(Arena, items)
       IN  /\ Len(r.arena.slots) <= maxSlots
           /\ SetArena(r.arena)
           /\ panicked' = r.panic
           /\ last' = [op |-> "extend", panic |-> r.panic]
           /\ freed' = SelectSeq(freed, LAMBDA i :
                           ~ /\ i < Len(slots)
                             /\ slots[i + 1].entry.tag = "Free"
                             /\ r.arena.slots[i + 1].entry.tag = "Present")
           /\ UNCHANGED << issued, removed, vacated, iter_vars >>

Reserve(additional) ==
    /\ Usable
    /\ LET r == reserve(Arena, additional)
       IN  /\ panicked' = r.panic
           /\ last' = [op |-> "reserve", arg |-> additional,
                       request |-> r.request, panic |-> r.panic]
           /\ UNCHANGED << arena_vars, issued, removed, vacated, freed, iter_vars >>

ReserveExact(additional) ==
    /\ Usable
    /\ LET r == reserve_exact(Arena, additional)
       IN  /\ panicked' = r.panic
           /\ last' = [op |-> "reserve_exact", arg |-> additional,
                       request |-> r.request, panic |-> r.panic]
           /\ UNCHANGED << arena_vars, issued, removed, vacated, freed, iter_vars >>

\* arena[id] and the mutable form; what is written through the reference of
\* index_mut is not modelled.
Index(id) ==
    /\ Usable
    /\ LET r == arena_index(Arena, id)
       IN  /\ panicked' = r.panic
           /\ last' = [op |-> "index", arg |-> id, ret |-> r.ret, panic |-> r.panic]
           /\ UNCHANGED << arena_vars, issued, removed, vacated, freed, iter_vars >>

IndexMut(id) ==
    /\ Usable
    /\ LET r == arena_index_mut(Arena, id)
       IN  /\ panicked' = r.panic
           /\ last' = [op |-> "index_mut", arg |-> id, ret |-> r.ret, panic |-> r.panic]
           /\ UNCHANGED << arena_vars, issued, removed, vacated, freed, iter_vars >>

\* iter(), iter_mut() or into_iter().  len() is a usize subtraction: where it
\* goes below zero the call panics if overflow checks are on and otherwise
\* goes on with the wrapped length, kept here as the negative number.
NewIter(kind) ==
    /\ Usable
    /\ \E overflow_checks \in BOOLEAN :
          /\ panicked' = (overflow_checks /\ len(Arena) < 0)
          /\ it' = IF panicked' THEN it ELSE MkIter(kind, Arena)
    /\ yielded' = << >>
    /\ calls' = "none"
    /\ ended' = FALSE
    /\ last' = [op |-> kind]
    /\ UNCHANGED << arena_vars, issued, removed, vacated, freed >>

IterStep(r, op, dir) ==
    /\ it' = r.iter
    /\ yielded' = IF r.ret.some THEN Append(yielded, r.ret.val) ELSE yielded
    /\ calls' = IF calls \in {"none", dir} THEN dir ELSE "mixed"
    /\ ended' = (ended \/ ~r.ret.some)
    /\ last' = [op |-> op, ret |-> r.ret]
    /\ UNCHANGED << arena_vars, panicked, issued, removed, vacated, freed >>

IterNext ==
    /\ ~panicked
    /\ it.kind \in {"iter", "iter_mut", "into_iter"}
    /\ IterStep(next(it, slots), "next", "fwd")

IterNextBack ==
    /\ ~panicked
    /\ it.kind \in {"iter", "iter_mut", "into_iter"}
    /\ IterStep(next_back(it, slots), "next_back", "bwd")

\* The iterator goes out of scope: a borrow ends, and an IntoIter takes the
\* arena it has consumed with it.
IterDrop ==
    /\ ~panicked
    /\ it.kind \in {"iter", "iter_mut", "into_iter"}
    /\ it' = IF it.kind = "into_iter" THEN [kind |-> "consumed"] ELSE NoIter
    /\ yielded' = << >>
    /\ calls' = "none"
    /\ ended' = FALSE
    /\ last' = [op |-> "drop"]
    /\ UNCHANGED << arena_vars, panicked, issued, removed, vacated, freed >>

\* ---------------------------------------------------------- specifications
\* insert, remove and clear; remove is given handles insert has returned
\* (in every specification).
Next ==
    \/ \E t \in Values : Insert(t, MaxSlots)
    \/ \E id \in issued : Remove(id, MaxGenSum)
    \/ Clear

Spec == Init /\ [][Next]_vars

\* insert, remove, clear and extend.
NextExtend ==
    \/ \E t \in Values : Insert(t, MaxSlots)
    \/ \E id \in issued : Remove(id, MaxGenSum)
    \/ Clear
    \/ \E items \in SeqUpTo(Values, MaxExtend) : Extend(items, MaxSlots)

SpecExtend == Init /\ [][NextExtend]_vars

\* insert and remove with the capacity hints.
NextReserve ==
    \/ \E t \in Values : Insert(t, MaxSlots)
    \/ \E id \in issued : Remove(id, MaxGenSum)
    \/ \E additional \in 0..MaxAdditional : Reserve(additional)
    \/ \E additional \in 0..MaxAdditional : ReserveExact(additional)

SpecReserve == Init /\ [][NextReserve]_vars

\* insert and remove alone.
NextIR ==
    \/ \E t \in Values : Insert(t, MaxSlotsIR)
    \/ \E id \in issued : Remove(id, MaxGenSumIR)

SpecIR == Init /\ [][NextIR]_vars

\* insert and remove with the three iterators.
NextIter ==
    \/ \E t \in Values : Insert(t, MaxSlotsIter)
    \/ \E id \in issued : Remove(id, MaxGenSumIter)
    \/ \E kind \in {"iter", "iter_mut", "into_iter"} : NewIter(kind)
    \/ IterNext
    \/ IterNextBack
    \/ IterDrop

SpecIter == Init /\ [][NextIter]_vars

\* insert and remove with the indexing operators, which are given any handle.
IdxSpace == { Id(i, g) : i \in 0..MaxIdxIndex, g \in 0..MaxIdxGen }

NextIndex ==
    \/ \E t \in Values : Insert(t, MaxSlots)
    \/ \E id \in issued : Remove(id, MaxGenSum)
    \/ \E id \in IdxSpace : Index(id)
    \/ \E id \in IdxSpace : IndexMut(id)

SpecIndex == Init /\ [][NextIndex]_vars

\* insert and remove on an arena built from a sequence.
SpecFrom == InitFrom /\ [][NextIR]_vars

\* ------------------------------------------------------------- properties
\* The arena after the step, for the properties of steps.
ArenaNext == MkArena(slots', first_free', free_count')

InsertReturned(l) == l.op = "insert" /\ ~l.panic

RemoveReturnedValue(l) == l.op = "remove" /\ l.ret.some

\* The handle resolves to nothing, by get and by contains.
Dead(a, id) == get_raw(a, id) = None /\ ~exists_raw(a, id)

\* C1: invalidation is permanent.  A remove that returns the value leaves its
\* handle resolving to nothing (get yields nothing, contains is false), and a
\* handle whose remove has returned the value and that resolves to nothing
\* still resolves to nothing after every further insert and remove.
C1_InvalidationIsPermanent ==
    [][ /\ RemoveReturnedValue(last') => Dead(ArenaNext, last'.arg)
        /\ \A id \in removed : Dead(Arena, id) => Dead(ArenaNext, id) ]_vars

\* C1 witness: the slot of a removed handle holds a value again.
C1_Witness ==
    \E id \in removed :
        /\ id.index < Len(slots)
        /\ slots[id.index + 1].entry.tag = "Present"
        /\ Dead(Arena, id)

\* C2: reuse detection, stated as the claim's equivalent: no insertion
\* returns a handle that an earlier insertion has returned.
C2_NoHandleIssuedTwice ==
    [][ InsertReturned(last') => last'.ret \notin issued ]_vars

\* C3: round trip.  After id = insert(v), get(id) yields v, contains(id) is
\* true and remove(id) on that state returns v; and a remove(id) that is the
\* very next operation returns v.
C3_RoundTrip ==
    [][ /\ InsertReturned(last') =>
              /\ get_raw(ArenaNext, last'.ret) = Some(last'.arg)
              /\ exists_raw(ArenaNext, last'.ret)
              /\ remove_raw(ArenaNext, last'.ret).ret = Some(last'.arg)
        /\ (InsertReturned(last) /\ last'.op = "remove" /\ last'.arg = last.ret) =>
              last'.ret = Some(last.arg) ]_vars

\* C3 witness: an insert has returned a handle of a reused slot, which
\* resolves to the value inserted.
C3_Witness ==
    /\ InsertReturned(last)
    /\ last.ret.generation > 0
    /\ get_raw(Arena, last.ret) = Some(last.arg)

\* remove(id) on arena a returned the held value and applied in full: the
\* slot is free, its generation one more, the free count one more, the other
\* slots untouched.
RemoveApplied(a, id, r) ==
    /\ r.ret.some
    /\ r.ret = get_raw(a, id)
    /\ Len(r.arena.slots) = Len(a.slots)
    /\ r.arena.slots[id.index + 1].entry.tag = "Free"
    /\ r.arena.slots[id.index + 1].generation = a.slots[id.index + 1].generation + 1
    /\ r.arena.free_count = a.free_count + 1
    /\ \A i \in 1..Len(a.slots) : i # id.index + 1 => r.arena.slots[i] = a.slots[i]

\* C4: remove is all-or-nothing.  In every reachable state and for every
\* handle value, remove either returns the held value and applies in full, or
\* returns nothing and leaves the arena as it was.
C4_RemoveAllOrNothing ==
    \A id \in IdSpace :
        LET r == remove_raw(Arena, id)
        IN  \/ RemoveApplied(Arena, id, r)
            \/ (r.ret = None /\ r.arena = Arena)

PresentSlots(s) == { i \in 1..Len(s) : s[i].entry.tag = "Present" }

\* C5: length invariant.  len() is the number of handles insert has returned
\* for which contains is true, and the number of Present slots.
C5_LengthInvariant ==
    /\ len(Arena) = Cardinality({ id \in issued : exists_raw(Arena, id) })
    /\ len(Arena) = Cardinality(PresentSlots(slots))

\* C5 witness: values are held, slots are free and handles have died.
C5_Witness ==
    /\ len(Arena) >= 1
    /\ free_count >= 1
    /\ Cardinality(issued) > len(Arena)
    /\ last.op = "insert"

\* C6: generation bump on reuse.  An insertion that reuses the slot vacated by
\* remove(h) returns the handle (h.index, h.generation + 1).
C6_GenerationBumpOnReuse ==
    [][ InsertReturned(last') =>
            \A h \in vacated :
                h.index = last'.ret.index =>
                    last'.ret = Id(h.index, h.generation + 1) ]_vars

\* C6 witness: an insert has reused a slot that was vacated twice.
C6_Witness ==
    /\ InsertReturned(last)
    /\ last.ret.generation = 2
    /\ Id(last.ret.index, 1) \in vacated

\* C7: reserve arithmetic.  reserve and reserve_exact do not fail; with
\* additional > free count they ask the vector for additional - free_count
\* slots, otherwise for nothing; the arena is unchanged.
C7_ReserveArithmetic ==
    [][ last'.op \in {"reserve", "reserve_exact"} =>
            /\ ~last'.panic
            /\ last'.request = IF last'.arg > free_count
                               THEN Some(last'.arg - free_count)
                               ELSE None
            /\ ArenaNext = Arena
            /\ len(ArenaNext) = len(Arena) ]_vars

\* The values of the Present slots of s, in ascending order of the index.
RECURSIVE PresentValues(_)
PresentValues(s) ==
    IF s = << >>
    THEN << >>
    ELSE IF Head(s).entry.tag = "Present"
         THEN << Head(s).entry.val >> \o PresentValues(Tail(s))
         ELSE PresentValues(Tail(s))

Reverse(q) == [i \in 1..Len(q) |-> q[Len(q) + 1 - i]]

IterAlive == it.kind \in {"iter", "iter_mut", "into_iter"}

\* C8: traversal.  What next alone has yielded is a prefix of the Present
\* values in ascending slot order, and all of them once it has returned
\* nothing; next_back alone yields them in descending order; any exhausted
\* iterator has yielded len() items.
C8_TraversalOrder ==
    IterAlive =>
        /\ calls = "fwd" =>
              /\ Len(yielded) <= Len(PresentValues(slots))
              /\ yielded = SubSeq(PresentValues(slots), 1, Len(yielded))
        /\ calls = "bwd" =>
              /\ Len(yielded) <= Len(PresentValues(slots))
              /\ yielded = SubSeq(Reverse(PresentValues(slots)), 1, Len(yielded))
        /\ ended => Len(yielded) = len(Arena)
        /\ (ended /\ calls = "fwd") => yielded = PresentValues(slots)
        /\ (ended /\ calls = "bwd") => yielded = Reverse(PresentValues(slots))

\* C8 witness: a backward traversal has ended after it yielded two different
\* values and skipped a free slot.
C8_Witness ==
    /\ IterAlive
    /\ ended
    /\ calls = "bwd"
    /\ free_count >= 1
    /\ Len(yielded) = 2
    /\ yielded[1] # yielded[2]

\* The number of items the iterator yields from here on, by next alone and by
\* next_back alone.
RECURSIVE Drain(_, _)
Drain(i, s) ==
    LET r == next(i, s)
    IN  IF r.ret.some THEN 1 + Drain(r.iter, s) ELSE 0

RECURSIVE DrainBack(_, _)
DrainBack(i, s) ==
    LET r == next_back(i, s)
    IN  IF r.ret.some THEN 1 + DrainBack(r.iter, s) ELSE 0

\* C9: exact size.  At every point of an iteration size_hint is the number of
\* items the iterator still yields, and it is 0 exactly when the next call
\* returns nothing.
C9_ExactSize ==
    IterAlive =>
        /\ size_hint(it) = Drain(it, slots)
        /\ size_hint(it) = DrainBack(it, slots)
        /\ size_hint(it) = 0 <=> next(it, slots).ret = None
        /\ size_hint(it) = 0 <=> next_back(it, slots).ret = None

\* C9 witness: an iterator over an arena with a free slot has yielded an item
\* from the back and has one still to come.
C9_Witness ==
    /\ IterAlive
    /\ calls = "bwd"
    /\ free_count >= 1
    /\ it.returned = 1
    /\ size_hint(it) = 1

\* C10: clear.  After clear len() is 0, is_empty() is true, iteration yields
\* nothing, contains is false for every handle, and an insertion appends a
\* slot and returns the handle (0, 0).
C10_ClearResets ==
    [][ /\ last'.op = "clear" =>
              /\ len(ArenaNext) = 0
              /\ is_empty(ArenaNext)
              /\ next(iter(ArenaNext), slots').ret = None
              /\ next_back(iter(ArenaNext), slots').ret = None
              /\ \A id \in IdSpace : ~exists_raw(ArenaNext, id)
              /\ \A v \in Values :
                    LET r == insert_raw(ArenaNext, v)
                    IN  ~r.panic /\ r.id = Id(0, 0) /\ Len(r.arena.slots) = 1
        /\ (last.op = "clear" /\ last'.op = "insert") =>
              /\ ~last'.panic
              /\ last'.ret = Id(0, 0)
              /\ Len(slots') = 1 ]_vars

\* C10 witness: clear has acted on an arena whose free list was not empty and
\* has left a free-list head other than 0 behind.
C10_Witness ==
    /\ last.op = "clear"
    /\ last.free_count_before > 0
    /\ first_free > 0

\* The arena a is what the sequence items builds: a Present slot of
\* generation 0 per item, no free slot, the i-th item behind the handle
\* (i, 0), and an insertion returns the handle (n, 0).
Built(a, items) ==
    LET n == Len(items)
    IN  /\ Len(a.slots) = n
        /\ \A i \in 1..n : a.slots[i] = Slot(0, Present(items[i]))
        /\ a.free_count = 0
        /\ len(a) = n
        /\ \A i \in 1..n : get_raw(a, Id(i - 1, 0)) = Some(items[i])
        /\ \A v \in Values :
              LET r == insert_raw(a, v)
              IN  ~r.panic /\ r.id = Id(n, 0)

\* C11: bulk construction.  An arena built from n items has n Present slots
\* of generation 0, free count 0, len() = n, the i-th item behind the handle
\* (i, 0), and its next insert returns the handle (n, 0).
C11_BulkConstruction ==
    /\ [](last.op = "from_iter" => Built(Arena, last.arg))
    /\ [][ (last.op = "from_iter" /\ last'.op = "insert") =>
               (~last'.panic /\ last'.ret = Id(Len(last.arg), 0)) ]_vars

\* C11 witness: the first insert into an arena built from two different
\* items has returned the handle (2, 0), and the items are behind (0, 0) and
\* (1, 0).
C11_Witness ==
    /\ InsertReturned(last)
    /\ last.ret = Id(2, 0)
    /\ issued = {Id(2, 0)}
    /\ get_raw(Arena, Id(0, 0)).some
    /\ get_raw(Arena, Id(1, 0)).some
    /\ get_raw(Arena, Id(0, 0)) # get_raw(Arena, Id(1, 0))

\* C12: fused iteration.  Once a call on an iterator has returned nothing,
\* every further next and next_back on it returns nothing.
C12_Fused ==
    [][ (IterAlive /\ ended /\ last'.op \in {"next", "next_back"}) =>
            last'.ret = None ]_vars

\* C12 witness: calls from both ends on an iterator over free slots alone:
\* the second call came after the first had returned nothing.
C12_Witness ==
    /\ IterAlive
    /\ ended
    /\ calls = "mixed"
    /\ yielded = << >>
    /\ Len(slots) >= 2
    /\ it.front > 0
    /\ last.ret = None

\* C13: indexed access is the failing twin of get.  arena[h] and the mutable
\* form panic exactly when get(h) yields nothing, return what get(h) yields
\* otherwise, and leave the arena unchanged.
C13_IndexIsFailingGet ==
    [][ last'.op \in {"index", "index_mut"} =>
            /\ last'.panic <=> (get_raw(Arena, last'.arg) = None)
            /\ last'.ret = get_raw(Arena, last'.arg)
            /\ ArenaNext = Arena ]_vars

\* C13 witness: index_mut has returned the value of a reused slot.
C13_Witness ==
    /\ last.op = "index_mut"
    /\ ~last.panic
    /\ last.arg.generation >= 1
    /\ last.ret = get_raw(Arena, last.arg)
    /\ free_count >= 1

\* C14: slot allocation order.  An insert on a non-empty free list takes the
\* slot that was vacated last among those still free, keeps the number of
\* slots and lowers free_count by 1; an insert on an empty free list appends
\* a slot at index = the number of slots before, with generation 0, and
\* leaves free_count at 0.
C14_AllocationOrder ==
    [][ InsertReturned(last') =>
            IF free_count > 0
            THEN /\ freed # << >>
                 /\ last'.ret.index = freed[Len(freed)]
                 /\ Len(slots') = Len(slots)
                 /\ free_count' = free_count - 1
            ELSE /\ last'.ret = Id(Len(slots), 0)
                 /\ Len(slots') = Len(slots) + 1
                 /\ free_count' = 0 ]_vars

\* C14 witness: an insert has taken the slot vacated last, which is not the
\* slot of the lowest index, while an older free slot stays free.
C14_Witness ==
    /\ InsertReturned(last)
    /\ last.ret.index >= 1
    /\ last.ret.generation >= 1
    /\ freed # << >>
    /\ freed[Len(freed)] < last.ret.index
    /\ free_count = Len(freed)

\* C15: insert does not disturb unrelated handles.  In every reachable state,
\* every handle that resolved to a value before an insert resolves to the
\* same value after it, and every slot but the one that receives the new
\* value keeps its entry and its generation.
C15_InsertFrame ==
    [][ last'.op = "insert" =>
            /\ \A id \in IdSpace :
                   get_raw(Arena, id).some =>
                       get_raw(ArenaNext, id) = get_raw(Arena, id)
            /\ \A i \in 1..Len(slots) :
                   (last'.panic \/ i # last'.ret.index + 1) =>
                       slots'[i] = slots[i] ]_vars

\* C15 witness: an insert has reused a free slot while another slot holds a
\* value under a handle issued before.
C15_Witness ==
    /\ InsertReturned(last)
    /\ last.ret.generation >= 1
    /\ \E id \in issued :
           /\ id # last.ret
           /\ get_raw(Arena, id).some

\* C16: generation discipline.  Across every step of insert, remove and
\* iteration no slot goes away and no generation decreases; the generation
\* of a slot changes only in a remove that returns the value of that slot,
\* where it grows by exactly 1; insert, a remove that returns nothing and the
\* iterator calls leave every generation as it was.
C16_GenerationDiscipline ==
    [][ /\ Len(slots') >= Len(slots)
        /\ \A i \in 1..Len(slots) :
               IF slots'[i].generation # slots[i].generation
               THEN /\ RemoveReturnedValue(last')
                    /\ last'.arg.index + 1 = i
                    /\ slots'[i].generation = slots[i].generation + 1
               ELSE ~ /\ last' # last
                      /\ RemoveReturnedValue(last')
                      /\ last'.arg.index + 1 = i ]_vars

\* C16 witness: a remove has returned the value of a slot and raised its
\* generation to 2, after the slot was reused.
C16_Witness ==
    /\ RemoveReturnedValue(last)
    /\ last.arg.generation = 1
    /\ slots[last.arg.index + 1].generation = 2
    /\ slots[last.arg.index + 1].entry.tag = "Free"

\* The indices of the slots whose entry is Free.
FreeSlots(a) == { i \in 0..(Len(a.slots) - 1) : a.slots[i + 1].entry.tag = "Free" }

\* The indices met by following next_free from index i for n steps; the walk
\* ends at an index that is out of bounds or whose slot is Present.
RECURSIVE Chain(_, _, _)
Chain(a, i, n) ==
    IF n = 0
    THEN << >>
    ELSE IF i >= Len(a.slots)
         THEN << i >>
         ELSE IF a.slots[i + 1].entry.tag # "Free"
              THEN << i >>
              ELSE << i >> \o Chain(a, a.slots[i + 1].entry.next_free, n - 1)

\* C17: free-list integrity.  In every state reached by insert, remove, clear
\* and extend with handles this arena's insert has returned, free_count is
\* the number of Free slots and at most the number of slots, and the walk
\* from first_free over free_count links meets every Free slot exactly once,
\* no Present slot and no index out of bounds.
C17_FreeListIntegrity ==
    LET c == Chain(Arena, first_free, free_count)
    IN  /\ free_count = Cardinality(FreeSlots(Arena))
        /\ free_count <= Len(slots)
        /\ Len(c) = free_count
        /\ { c[k] : k \in 1..Len(c) } = FreeSlots(Arena)
        /\ \A k, l \in 1..Len(c) : c[k] = c[l] => k = l

\* C18: contains and get agree.  In every reachable state and for every
\* handle value, of any index and any generation, contains(h) is true if and
\* only if get(h) yields a value.
C18_ContainsIffGet ==
    \A id \in IdSpace : exists_raw(Arena, id) <=> get_raw(Arena, id).some

====
